---- MODULE Spec2Model ----
(***************************************************************************)
(* Telesense: a warehouse extractor (Telesense_data.py) that writes a JSON *)
(* snapshot, and a reporter (Telesense_analysis.py) that loads the         *)
(* snapshot into a table and computes three reports over it.               *)
(***************************************************************************)
EXTENDS Integers, Sequences, FiniteSets, TLC

VARIABLES
    epc,                    \* extractor position: "connect", "read", "save", "done", "crashed"
    conn,                   \* fetch_data_from_redshift's conn: "none", "open", "closed"
    opened,                 \* number of successful psycopg2.connect calls
    result,                 \* the rows the warehouse returns for the query
    chunk_size,             \* page size of fetch_data_from_redshift
    cursor,                 \* index in result of the next row pd.read_sql yields
    all_chunks,             \* the chunks collected so far
    df,                     \* the table fetch_data_from_redshift returned
    fs,                     \* the file system: path -> file
    fs0,                    \* the file system when the extractor started
    elog,                   \* the last line the extractor printed about the snapshot
    rpc,                    \* reporter position: "boot", "ready", "crashed"
    df_combined_telemetry,  \* the reporter's loaded table
    log,                    \* the loader's diagnostic
    now,                    \* the last reading of the clock, in days
    sort_ties,              \* how the platform's unstable sort orders equal keys
    out,                    \* the last report call and what it returned
    repeat                  \* how the last report call compares with the one before it

vars == <<epc, conn, opened, result, chunk_size, cursor, all_chunks, df, fs, fs0, elog,
          rpc, df_combined_telemetry, log, now, sort_ties, out, repeat>>

extractorVars == <<epc, conn, opened, result, chunk_size, cursor, all_chunks, df, fs, fs0, elog>>
reporterVars == <<rpc, df_combined_telemetry, log, now, sort_ties, out, repeat>>

(***************************************************************************)
(* Bounds of the model.                                                    *)
(***************************************************************************)
MaxRows == 3        \* rows in a query result or in a snapshot's data_records
MaxChunk == 2       \* largest page size tried
MaxTicks == 1       \* days that pass during a reporter session

(***************************************************************************)
(* Cell values.  A cell is a tagged record, so that None, NaN, strings,    *)
(* numbers and timestamps stay distinct values.  TsStr(k) is the string    *)
(* str(Timestamp) of instant k, DateStr(d) the ISO string of date d; ISO   *)
(* date strings of equal length order as their dates do.                   *)
(***************************************************************************)
None == [t |-> "null"]
NaN == [t |-> "nan"]
Str(s) == [t |-> "str", v |-> s]
Num(n) == [t |-> "num", v |-> n]
Bool(b) == [t |-> "bool", v |-> b]
Timestamp(k) == [t |-> "ts", v |-> k]
Date(d) == [t |-> "date", v |-> d]
TsStr(k) == [t |-> "tsstr", v |-> k]
DateStr(d) == [t |-> "datestr", v |-> d]

IsNull(c) == c.t \in {"null", "nan"}

Min(a, b) == IF a <= b THEN a ELSE b

RECURSIVE Flatten(_)
Flatten(ss) == IF ss = <<>> THEN <<>> ELSE Head(ss) \o Flatten(Tail(ss))

(***************************************************************************)
(* Telesense_data.py                                                       *)
(***************************************************************************)
table_key == "ansible_all_telemetry_combined_reliable"

description == "Comprehensive, denormalized Ansible telemetry data: job execution, cluster, host, modules, Lightspeed, and entitlements."

\* The output columns of the query of TABLE_QUERIES: each select item's alias,
\* or its column name when it has none.
QueryColumns ==
    { "job_created_timestamp", "job_created_date", "job_id", "job_name", "job_status",
      "job_failed_flag", "job_elapsed_seconds", "launch_type", "job_org_id",
      "job_cluster_id",
      "job_host_count", "job_ok_host_count", "job_failed_host_count", "job_task_count",
      "job_task_ok_count", "job_task_failed_count", "job_avg_elapsed_per_host",
      "tower_version", "license_type", "total_licensed_instances",
      "cluster_automated_instances", "cluster_current_inventory_hosts",
      "cluster_is_compliant", "subscription_name", "cluster_in_trial_flag",
      "cluster_url",
      "daily_host_failed_count", "daily_host_success_count", "daily_host_total_count",
      "daily_host_activity_id", "daily_host_activity_date",
      "host_metric_hostname", "host_metric_deleted_flag", "host_metric_automation_count",
      "host_metric_last_seen",
      "collection_name", "module_name", "module_invocation_count",
      "lightspeed_feedback_rating", "lightspeed_feedback_model",
      "lightspeed_recommendation_action", "lightspeed_rec_collection_name",
      "lightspeed_rec_module_name",
      "customer_global_name", "entl_nodes_type", "customer_entitled_nodes",
      "entitlement_start_date", "entitlement_end_date", "entitlement_status",
      "has_entl_info", "cyq" }

\* A table: its column names and its rows, each row a function on the columns.
DataFrame(cols, rows) == [columns |-> cols, rows |-> rows]
EmptyDataFrame == DataFrame({}, <<>>)

\* DataFrame.empty: some axis has length 0.
IsEmpty(d) == d.columns = {} \/ Len(d.rows) = 0

\* pd.concat(all_chunks, ignore_index=True)
ConcatLast(chunks) == chunks[Len(chunks)]
Concat(chunks) ==
    DataFrame(UNION {chunks[i].columns : i \in 1..Len(chunks)},
              Flatten([i \in 1..Len(chunks) |-> chunks[i].rows]))

\* finally: if conn: conn.close()
CloseIfOpenSkipped(c) == c
CloseIfOpen(c) == IF c = "open" THEN "closed" ELSE c

\* except Exception: log and return pd.DataFrame()
OnFetchError == "save"

\* the path the extractor writes: os.path.join(output_dir, f"{table_key}_data.json")
output_filename == <<"telemetry_json_output", table_key, "_data.json">>

\* the path the reporter reads: os.path.join(DATA_DIR, COMBINED_JSON_FILENAME)
COMBINED_JSON_PATH ==
    <<"telemetry_json_output", "ansible_all_telemetry_combined_reliable", "_data.json">>

Paths == {output_filename, COMBINED_JSON_PATH}

\* Files.  A file is absent, present but unreadable, present with text that
\* is not JSON, or present with the text of a JSON value.
Absent == [kind |-> "absent"]
Unreadable == [kind |-> "unreadable"]
Garbage == [kind |-> "garbage"]
JsonFile(j) == [kind |-> "json", val |-> j]

\* JSON values.  Scalars are cells; arrays and objects are tagged.
JArr(s) == [t |-> "arr", v |-> s]
JObj(f) == [t |-> "obj", v |-> f]

\* json.dump(..., default=str) of one cell: values json cannot encode
\* (Timestamp, date) are written as their str().
JsonCell(c) ==
    CASE c.t = "ts" -> TsStr(c.v)
      [] c.t = "date" -> DateStr(c.v)
      [] OTHER -> c

\* str(df[col].dtype) of a column.
Dtype(d, col) ==
    LET ts == {d.rows[i][col].t : i \in 1..Len(d.rows)}
    IN  IF ts \subseteq {"num"} THEN "int64"
        ELSE IF ts \subseteq {"num", "nan", "null"} /\ "num" \in ts THEN "float64"
        ELSE IF ts \subseteq {"bool"} THEN "bool"
        ELSE IF ts \subseteq {"ts", "null", "nan"} /\ "ts" \in ts THEN "datetime64[ns]"
        ELSE "object"

\* df.to_dict(orient='records') as json.dump writes it
ToRecords(d) ==
    [i \in 1..Len(d.rows) |-> JObj([c \in d.columns |-> JsonCell(d.rows[i][c])])]

\* structured_entry as json.dump writes it
StructuredEntry(d) ==
    JObj([table_name |-> Str(table_key),
          description |-> Str(description),
          data_schema |-> JObj([c \in d.columns |-> Str(Dtype(d, c))]),
          data_records |-> JArr(ToRecords(d))])

\* if not df.empty
ShouldWriteAlways(d) == TRUE
ShouldWrite(d) == ~IsEmpty(d)

\* conn = psycopg2.connect(...) succeeds
Connect ==
    /\ epc = "connect"
    /\ conn' = "open"
    /\ opened' = opened + 1
    /\ epc' = "read"
    /\ UNCHANGED <<result, chunk_size, cursor, all_chunks, df, fs, fs0, elog>>
    /\ UNCHANGED reporterVars

\* psycopg2.connect raises: except logs, returns pd.DataFrame(); finally
ConnectFail ==
    /\ epc = "connect"
    /\ df' = EmptyDataFrame
    /\ conn' = CloseIfOpen(conn)
    /\ epc' = OnFetchError
    /\ UNCHANGED <<opened, result, chunk_size, cursor, all_chunks, fs, fs0, elog>>
    /\ UNCHANGED reporterVars

\* one iteration of the loop over pd.read_sql(..., chunksize=chunk_size).
\* For a result of no rows pandas yields either nothing or, in later
\* versions, one chunk of no rows: both are allowed.
MoreChunks == IF Len(result) = 0 THEN all_chunks = <<>> ELSE cursor <= Len(result)

ReadChunk ==
    /\ epc = "read"
    /\ MoreChunks
    /\ all_chunks' = Append(all_chunks,
            DataFrame(QueryColumns,
                      SubSeq(result, cursor, Min(cursor + chunk_size - 1, Len(result)))))
    /\ cursor' = cursor + chunk_size
    /\ UNCHANGED <<epc, conn, opened, result, chunk_size, df, fs, fs0, elog>>
    /\ UNCHANGED reporterVars

\* the query or a page fetch raises: except logs, returns pd.DataFrame(); finally
QueryFail ==
    /\ epc = "read"
    /\ df' = EmptyDataFrame
    /\ conn' = CloseIfOpen(conn)
    /\ epc' = OnFetchError
    /\ UNCHANGED <<opened, result, chunk_size, cursor, all_chunks, fs, fs0, elog>>
    /\ UNCHANGED reporterVars

\* the iterator is exhausted: return the concatenation, or an empty table; finally
ReadDone ==
    /\ epc = "read"
    /\ cursor > Len(result)
    /\ df' = IF all_chunks # <<>> THEN Concat(all_chunks) ELSE EmptyDataFrame
    /\ conn' = CloseIfOpen(conn)
    /\ epc' = "save"
    /\ UNCHANGED <<opened, result, chunk_size, cursor, all_chunks, fs, fs0, elog>>
    /\ UNCHANGED reporterVars

\* the lines the extractor prints about the snapshot file
Skipping == "No data fetched or an error occurred. Skipping file creation."
Saved == "Saved data successfully."
ErrorSaving == "Error saving data to file"

\* else: "No data fetched ... Skipping file creation."
SkipWrite ==
    /\ epc = "save"
    /\ ~ShouldWrite(df)
    /\ elog' = Skipping
    /\ epc' = "done"
    /\ UNCHANGED <<conn, opened, result, chunk_size, cursor, all_chunks, df, fs, fs0>>
    /\ UNCHANGED reporterVars

\* open(output_filename, 'w') and json.dump succeed
WriteSnapshot ==
    /\ epc = "save"
    /\ ShouldWrite(df)
    /\ fs' = [fs EXCEPT ![output_filename] = JsonFile(StructuredEntry(df))]
    /\ elog' = Saved
    /\ epc' = "done"
    /\ UNCHANGED <<conn, opened, result, chunk_size, cursor, all_chunks, df, fs0>>
    /\ UNCHANGED reporterVars

\* open(output_filename, 'w') raises: logged, the file is as it was
WriteOpenFail ==
    /\ epc = "save"
    /\ ShouldWrite(df)
    /\ elog' = ErrorSaving
    /\ epc' = "done"
    /\ UNCHANGED <<conn, opened, result, chunk_size, cursor, all_chunks, df, fs, fs0>>
    /\ UNCHANGED reporterVars

\* the file is opened (truncated) and a write fails part way: logged
WriteDumpFail ==
    /\ epc = "save"
    /\ ShouldWrite(df)
    /\ fs' = [fs EXCEPT ![output_filename] = Garbage]
    /\ elog' = ErrorSaving
    /\ epc' = "done"
    /\ UNCHANGED <<conn, opened, result, chunk_size, cursor, all_chunks, df, fs0>>
    /\ UNCHANGED reporterVars

Extractor ==
    \/ Connect
    \/ ConnectFail
    \/ ReadChunk
    \/ QueryFail
    \/ ReadDone
    \/ SkipWrite
    \/ WriteSnapshot
    \/ WriteOpenFail
    \/ WriteDumpFail

(***************************************************************************)
(* Telesense_analysis.py: the loader                                       *)
(***************************************************************************)
\* pd.DataFrame(records): the columns are the union of the records' keys, and
\* a key a record lacks reads NaN in its row.  The records are JSON objects.
FromRecords(recs) ==
    LET cols == UNION {DOMAIN recs[i].v : i \in 1..Len(recs)}
    IN  DataFrame(cols,
                  [i \in 1..Len(recs) |->
                      [c \in cols |-> IF c \in DOMAIN recs[i].v THEN recs[i].v[c] ELSE NaN]])

\* the strings of the model that hold the text data_records
ContainsKeyText(s) == s \in {"data_records", "no data_records here"}

\* 'data_records' in combined_data: key of a dict, element of a list,
\* substring of a string; any other JSON value raises TypeError.
InRaises(j) == j.t \notin {"obj", "arr", "str"}
In(j) ==
    CASE j.t = "obj" -> "data_records" \in DOMAIN j.v
      [] j.t = "arr" -> \E i \in 1..Len(j.v) : j.v[i] = Str("data_records")
      [] j.t = "str" -> ContainsKeyText(j.v)
      [] OTHER -> FALSE

\* combined_data['data_records'] raises TypeError on a list or a string
SubscriptRaises(j) == j.t # "obj"

Loaded(tbl, msg) == [table |-> tbl, log |-> msg]

NotFound == "Error: Combined JSON file not found. Please run 'get_telesense_data.py' first."
InvalidJson == "Error: Invalid JSON format. File might be corrupted."
UnexpectedStructure == "Warning: 'data_records' key not found or not a list. Check JSON structure."
ErrorLoading == "Error loading combined data"
SuccessfullyLoaded == "Successfully loaded"

\* the module-level loading code, as a function of the file at COMBINED_JSON_PATH
LoadFile(file) ==
    IF file.kind = "absent" THEN Loaded(EmptyDataFrame, NotFound)
    ELSE IF file.kind = "unreadable" THEN Loaded(EmptyDataFrame, ErrorLoading)
    ELSE IF file.kind = "garbage" THEN Loaded(EmptyDataFrame, InvalidJson)
    ELSE IF InRaises(file.val) THEN Loaded(EmptyDataFrame, ErrorLoading)
    ELSE IF ~In(file.val) THEN Loaded(EmptyDataFrame, UnexpectedStructure)
    ELSE IF SubscriptRaises(file.val) THEN Loaded(EmptyDataFrame, ErrorLoading)
    ELSE IF file.val.v["data_records"].t # "arr" THEN Loaded(EmptyDataFrame, UnexpectedStructure)
    ELSE Loaded(FromRecords(file.val.v["data_records"].v), SuccessfullyLoaded)

\* the reporter starts, after the extractor has finished
Load ==
    /\ epc = "done"
    /\ rpc = "boot"
    /\ df_combined_telemetry' = LoadFile(fs[COMBINED_JSON_PATH]).table
    /\ log' = LoadFile(fs[COMBINED_JSON_PATH]).log
    /\ rpc' = "ready"
    /\ UNCHANGED <<now, sort_ties, out, repeat>>
    /\ UNCHANGED extractorVars

(***************************************************************************)
(* Telesense_analysis.py: the reports                                      *)
(***************************************************************************)
\* what a report function does: it returns a string (kind "report", "nodata"
\* or "missing") or raises (kind "raise").  A report string is modelled by the
\* numbers and the table rows it prints.
Returned(kind, text, nums, rows) == [kind |-> kind, text |-> text, nums |-> nums, rows |-> rows]
Message(kind, text) == Returned(kind, text, <<>>, <<>>)
Raised(err) == Returned("raise", err, <<>>, <<>>)

\* the rows of a sequence that satisfy a test, in order
RECURSIVE SelectRows(_, _)
SelectRows(rows, keep) ==
    IF rows = <<>> THEN <<>>
    ELSE (IF keep[1] THEN <<Head(rows)>> ELSE <<>>)
         \o SelectRows(Tail(rows), Tail(keep))

RECURSIVE Sum(_)
Sum(ns) == IF ns = <<>> THEN 0 ELSE Head(ns) + Sum(Tail(ns))

Count(rows, col, val) == Cardinality({i \in 1..Len(rows) : rows[i][col] = val})

\* df[cols].head(n)
HeadOf(rows, cols, n) ==
    [i \in 1..Min(n, Len(rows)) |-> [c \in cols |-> rows[i][c]]]

\* A sort of records by descending key.  Equal keys keep their order when the
\* sort is stable ("kept"); a platform's unstable sort may order them otherwise
\* ("reversed").
RECURSIVE SortDesc(_, _)
SortDesc(s, ties) ==
    IF s = <<>> THEN <<>>
    ELSE LET x == Head(s)
             r == SortDesc(Tail(s), ties)
             n == IF ties = "kept"
                  THEN Cardinality({i \in 1..Len(r) : r[i].key > x.key})
                  ELSE Cardinality({i \in 1..Len(r) : r[i].key >= x.key})
         IN  SubSeq(r, 1, n) \o <<x>> \o SubSeq(r, n + 1, Len(r))

\* pd.to_datetime(cell, errors='coerce'): the string of a timestamp parses to
\* it, a timestamp is kept; None, NaN and text that is no date give NaT.
ToDatetime(c) ==
    CASE c.t = "tsstr" -> Timestamp(c.v)
      [] c.t = "ts" -> c
      [] OTHER -> NaN

\* start_date <= t <= end_date, with end_date = now and start_date = now - n_days
InWindowExclusive(c, n_days, clock) == c.t = "ts" /\ clock - n_days < c.v /\ c.v <= clock
InWindow(c, n_days, clock) == c.t = "ts" /\ clock - n_days <= c.v /\ c.v <= clock

\* the rows of the table whose timestamp parses and lies in the window
RecentJobs(tbl, n_days, clock) ==
    SelectRows(tbl.rows,
               [i \in 1..Len(tbl.rows) |->
                   InWindow(ToDatetime(tbl.rows[i]["job_created_timestamp"]), n_days, clock)])

\* a cell as a term of Series.sum(): NaN and None are skipped
Summand(c) == IF c.t = "num" THEN c.v ELSE 0

SampleJobColumns == {"job_created_date", "job_name", "job_status", "job_elapsed_seconds", "job_org_id"}

get_jobs_run_summary(tbl, n_days, clock) ==
    IF IsEmpty(tbl) THEN Message("nodata", "No combined telemetry data available to analyze for jobs.")
    ELSE IF "job_created_timestamp" \notin tbl.columns THEN Raised("KeyError: 'job_created_timestamp'")
    ELSE LET recent == RecentJobs(tbl, n_days, clock)
         IN  IF recent = <<>> THEN Message("nodata", "No job data found in the last n_days days.")
             ELSE IF "job_status" \notin tbl.columns THEN Raised("KeyError: 'job_status'")
             ELSE Returned("report", "Job Run Summary",
                           << Len(recent),
                              Count(recent, "job_status", Str("successful")),
                              Count(recent, "job_status", Str("failed")),
                              IF "job_host_count" \in tbl.columns
                              THEN Sum([i \in 1..Len(recent) |-> Summand(recent[i]["job_host_count"])])
                              ELSE 0 >>,
                           HeadOf(recent, SampleJobColumns \cap tbl.columns, 5))

\* Series.astype(str) on an object column: str() of each value.  None becomes
\* the text None and NaN the text nan; a number or a boolean becomes its text.
AsStr(c) ==
    CASE c.t = "null" -> Str("None")
      [] c.t = "nan" -> Str("nan")
      [] c.t = "bool" -> Str(IF c.v THEN "True" ELSE "False")
      [] c.t = "num" -> [t |-> "numstr", v |-> c.v]
      [] OTHER -> c

\* pd.to_numeric(cell, errors='coerce') then fillna(0)
ToNumeric(c) ==
    CASE c.t = "num" -> c.v
      [] c.t = "bool" -> IF c.v THEN 1 ELSE 0
      [] OTHER -> 0

\* df_modules after the three conversions
ModulesConverted(tbl) ==
    [i \in 1..Len(tbl.rows) |->
        [tbl.rows[i] EXCEPT !["collection_name"] = AsStr(@),
                            !["module_name"] = AsStr(@),
                            !["module_invocation_count"] = Num(ToNumeric(@))]]

\* module_name.notna() & (module_name != '') & (module_name != 'nan')
ValidModule(name) == ~IsNull(name) /\ name # Str("") /\ name # Str("nan")

\* the order of the texts of the model, by code point
StrRank(s) ==
    CASE s = "" -> 0
      [] s = "A" -> 1
      [] s = "B" -> 2
      [] s = "None" -> 3
      [] s = "nan" -> 4
      [] s = "x" -> 5
      [] s = "y" -> 6

GroupRank(g) == StrRank(g[1].v) * 10 + StrRank(g[2].v)

\* the group keys in ascending order, as groupby yields them
RECURSIVE SortedKeys(_)
SortedKeys(G) ==
    IF G = {} THEN <<>>
    ELSE LET m == CHOOSE g \in G : \A h \in G : GroupRank(g) <= GroupRank(h)
         IN  <<m>> \o SortedKeys(G \ {m})

\* groupby(['collection_name', 'module_name'])['module_invocation_count'].sum().reset_index()
GroupSums(rows) ==
    LET keys == SortedKeys({<<rows[i]["collection_name"], rows[i]["module_name"]>> : i \in 1..Len(rows)})
    IN  [k \in 1..Len(keys) |->
            LET total == Sum([i \in 1..Len(rows) |->
                              IF <<rows[i]["collection_name"], rows[i]["module_name"]>> = keys[k]
                              THEN rows[i]["module_invocation_count"].v ELSE 0])
            IN  [key |-> total,
                 val |-> [collection_name |-> keys[k][1], module_name |-> keys[k][2],
                          module_invocation_count |-> total]]]

ModuleColumns == {"collection_name", "module_name", "module_invocation_count"}

get_top_modules_used(tbl, top_n, ties) ==
    IF IsEmpty(tbl) THEN Message("nodata", "No combined telemetry data available to analyze for modules.")
    ELSE IF ~(ModuleColumns \subseteq tbl.columns)
    THEN Message("missing", "Missing 'collection_name', 'module_name', or 'module_invocation_count' in combined data for module analysis.")
    ELSE LET conv == ModulesConverted(tbl)
             clean == SelectRows(conv, [i \in 1..Len(conv) |-> ValidModule(conv[i]["module_name"])])
         IN  IF clean = <<>> THEN Message("nodata", "No valid module usage data after cleaning in combined data.")
             ELSE LET sorted == SortDesc(GroupSums(clean), ties)
                  IN  Returned("report", "Top Ansible Modules Used", <<top_n>>,
                               [i \in 1..Min(top_n, Len(sorted)) |-> sorted[i].val])

\* Series.str.lower() of the texts the compliance column holds in the model
Lower(c) ==
    IF c.t # "str" THEN c
    ELSE CASE c.v \in {"True", "TRUE"} -> Str("true")
           [] c.v \in {"False", "FALSE"} -> Str("false")
           [] c.v = "None" -> Str("none")
           [] OTHER -> c

\* the sort key of a job_created_date cell: ISO date strings order as their dates
DateKey(c) == IF c.t = "datestr" THEN c.v ELSE 0

\* sort_values(by='job_created_date', ascending=False): the rows with a date
\* by descending date, then the rows without one in their order
SortByDate(rows, ties) ==
    LET dated == SelectRows(rows, [i \in 1..Len(rows) |-> ~IsNull(rows[i]["job_created_date"])])
        undated == SelectRows(rows, [i \in 1..Len(rows) |-> IsNull(rows[i]["job_created_date"])])
        sorted == SortDesc([i \in 1..Len(dated) |->
                               [key |-> DateKey(dated[i]["job_created_date"]), val |-> dated[i]]], ties)
    IN  [i \in 1..Len(sorted) |-> sorted[i].val] \o undated

\* the key drop_duplicates compares: missing values are equal to each other
ClusterKey(row) ==
    << IF IsNull(row["job_org_id"]) THEN None ELSE row["job_org_id"],
       IF IsNull(row["job_cluster_id"]) THEN None ELSE row["job_cluster_id"] >>

\* drop_duplicates(subset=['job_org_id', 'job_cluster_id']): the first row of each key
DropDuplicatesKeepLast(rows) ==
    SelectRows(rows, [i \in 1..Len(rows) |->
                         \A j \in (i + 1)..Len(rows) : ClusterKey(rows[j]) # ClusterKey(rows[i])])
DropDuplicates(rows) ==
    SelectRows(rows, [i \in 1..Len(rows) |->
                         \A j \in 1..(i - 1) : ClusterKey(rows[j]) # ClusterKey(rows[i])])

\* df_unique_clusters: is_compliant lower-cased, sorted, deduplicated
UniqueClusters(tbl, ties) ==
    DropDuplicates(SortByDate(
        [i \in 1..Len(tbl.rows) |-> [tbl.rows[i] EXCEPT !["is_compliant"] = Lower(AsStr(@))]],
        ties))

SampleClusterColumns == {"job_org_id", "job_cluster_id", "tower_version", "cluster_url"}

get_cluster_compliance_summary(tbl, ties) ==
    IF IsEmpty(tbl) THEN Message("nodata", "No combined telemetry data available to analyze for cluster compliance.")
    ELSE IF "is_compliant" \notin tbl.columns
    THEN Message("missing", "Missing 'is_compliant' column in combined data for compliance analysis.")
    ELSE IF "job_created_date" \notin tbl.columns THEN Raised("KeyError: 'job_created_date'")
    ELSE IF ~({"job_org_id", "job_cluster_id"} \subseteq tbl.columns)
    THEN Raised("KeyError: Index(['job_org_id', 'job_cluster_id'])")
    ELSE LET unique == UniqueClusters(tbl, ties)
             bad == SelectRows(unique, [i \in 1..Len(unique) |-> unique[i]["is_compliant"] = Str("false")])
         IN  Returned("report", "Cluster Compliance Summary",
                      << Len(unique), Count(unique, "is_compliant", Str("true")), Len(bad) >>,
                      HeadOf(bad, SampleClusterColumns \cap tbl.columns, 3))

\* the loaded table after a report call: each report works on a .copy()
AfterJobs(tbl) == tbl

AfterModulesInPlace(tbl) ==
    IF IsEmpty(tbl) \/ ~(ModuleColumns \subseteq tbl.columns) THEN tbl
    ELSE DataFrame(tbl.columns, ModulesConverted(tbl))
AfterModules(tbl) == tbl

AfterCompliance(tbl) == tbl

\* the parameters the reports are called with
NDays == {1, 30}
TopN == {1, 2}

NoCall == [fn |-> "none", arg |-> 0, at |-> 0, res |-> Message("none", "")]
NoRepeat == [call |-> FALSE, clock |-> FALSE, output |-> FALSE]

\* bookkeeping common to the three calls: the call, the clock reading it
\* used (0 when it reads no clock), its result, and, when it repeats the call
\* before it, whether the clock reading and the result are the same
Called(fn, arg, at, res) ==
    /\ out' = [fn |-> fn, arg |-> arg, at |-> at, res |-> res]
    /\ repeat' = IF out.fn = fn /\ out.arg = arg
                 THEN [call |-> TRUE, clock |-> out.at = at, output |-> out.res = res]
                 ELSE NoRepeat
    /\ rpc' = IF res.kind = "raise" THEN "crashed" ELSE "ready"

\* datetime.now() reads the clock, which has not gone back since it was last read
JobsReport ==
    /\ rpc = "ready"
    /\ \E n_days \in NDays, clock \in now..(40 + MaxTicks) :
           /\ now' = clock
           /\ Called("jobs", n_days, clock,
                     get_jobs_run_summary(df_combined_telemetry, n_days, clock))
    /\ df_combined_telemetry' = AfterJobs(df_combined_telemetry)
    /\ UNCHANGED <<log, sort_ties>>
    /\ UNCHANGED extractorVars

ModulesReport ==
    /\ rpc = "ready"
    /\ \E top_n \in TopN :
           Called("modules", top_n, 0, get_top_modules_used(df_combined_telemetry, top_n, sort_ties))
    /\ df_combined_telemetry' = AfterModules(df_combined_telemetry)
    /\ UNCHANGED <<log, now, sort_ties>>
    /\ UNCHANGED extractorVars

ComplianceReport ==
    /\ rpc = "ready"
    /\ Called("compliance", 0, 0, get_cluster_compliance_summary(df_combined_telemetry, sort_ties))
    /\ df_combined_telemetry' = AfterCompliance(df_combined_telemetry)
    /\ UNCHANGED <<log, now, sort_ties>>
    /\ UNCHANGED extractorVars

Reporter ==
    \/ Load
    \/ JobsReport
    \/ ModulesReport
    \/ ComplianceReport

(***************************************************************************)
(* Inputs                                                                  *)
(***************************************************************************)
SeqsUpTo(S, n) == UNION {[1..k -> S] : k \in 0..n}

\* a row of the query's result: the cells given, NULL in every other column
DbRow(cells) == [c \in QueryColumns |-> IF c \in DOMAIN cells THEN cells[c] ELSE None]

DbRows ==
    { DbRow([job_created_timestamp |-> Timestamp(40), job_created_date |-> Date(20240601),
             job_status |-> Str("successful"), job_host_count |-> Num(2),
             job_org_id |-> Num(1), job_cluster_id |-> Num(9),
             cluster_is_compliant |-> Bool(TRUE),
             collection_name |-> Str("A"), module_name |-> Str("x"),
             module_invocation_count |-> Num(5)]),
      DbRow([job_created_timestamp |-> Timestamp(0), job_created_date |-> Date(20240101),
             job_status |-> Str("successful"),
             job_org_id |-> Num(2), job_cluster_id |-> Num(8)]) }


\* a snapshot left by an earlier run
OldSnapshot ==
    JsonFile(StructuredEntry(DataFrame(QueryColumns,
        <<DbRow([job_created_timestamp |-> Timestamp(0), job_status |-> Str("failed")])>>)))

\* a snapshot document holding the records given
Snapshot(recs) ==
    JsonFile(JObj([table_name |-> Str(table_key), data_records |-> JArr(recs)]))

JobRecord(ts, status, hosts) ==
    JObj([job_created_timestamp |-> ts, job_status |-> status, job_host_count |-> hosts])

JobRecords ==
    { JobRecord(TsStr(40), Str("successful"), Num(2)),
      JobRecord(TsStr(39), Str("failed"), Num(1)),
      JobRecord(TsStr(0), Str("successful"), Num(1)),
      JobRecord(TsStr(10), Str("successful"), Num(3)),
      JobRecord(TsStr(41), Str("failed"), None),
      JobRecord(Str("not a date"), Str("running"), Num(1)) }

ModuleRecord(coll, mod, cnt) ==
    JObj([collection_name |-> coll, module_name |-> mod, module_invocation_count |-> cnt])

ModuleRecords ==
    { ModuleRecord(Str("A"), Str("x"), Num(5)),
      ModuleRecord(Str("A"), Str("x"), Num(3)),
      ModuleRecord(Str("B"), Str("y"), Num(10)),
      ModuleRecord(Str("A"), None, Num(5)),
      ModuleRecord(Str("B"), Str(""), Num(3)),
      ModuleRecord(Str("B"), Str("nan"), NaN),
      ModuleRecord(None, Str("y"), Str("abc")) }

ClusterRecord(org, cluster, date, flag) ==
    JObj([job_org_id |-> org, job_cluster_id |-> cluster, job_created_date |-> date,
          is_compliant |-> flag, tower_version |-> Str("4.5")])

ClusterRecords ==
    { ClusterRecord(Num(1), Num(9), DateStr(20240101), Bool(FALSE)),
      ClusterRecord(Num(1), Num(9), DateStr(20240601), Bool(TRUE)),
      ClusterRecord(Num(1), Num(9), DateStr(20240601), Str("False")),
      ClusterRecord(Num(2), Num(9), DateStr(20240101), Str("TRUE")),
      ClusterRecord(Num(1), Num(8), None, None),
      ClusterRecord(None, Num(8), DateStr(20240101), Bool(FALSE)) }

\* one record with every column the reports read
FullRecord ==
    [job_created_timestamp |-> TsStr(40), job_status |-> Str("successful"),
     job_host_count |-> Num(2), job_created_date |-> DateStr(20240601),
     job_org_id |-> Num(1), job_cluster_id |-> Num(9), is_compliant |-> Bool(TRUE),
     collection_name |-> Str("A"), module_name |-> Str("x"),
     module_invocation_count |-> Num(5)]

\* the same record with only some of its columns
PartialRecords ==
    {JObj([c \in S |-> FullRecord[c]]) : S \in SUBSET (DOMAIN FullRecord \ {"job_host_count"})}

\* files that are no snapshot
OtherFiles ==
    { Absent, Unreadable, Garbage,
      JsonFile(None), JsonFile(Num(42)), JsonFile(Bool(TRUE)),
      JsonFile(Str("hello")), JsonFile(Str("data_records")),
      JsonFile(JArr(<<>>)), JsonFile(JArr(<<Str("data_records")>>)),
      JsonFile(JObj([table_name |-> Str(table_key)])),
      JsonFile(JObj([data_records |-> None])),
      JsonFile(JObj([data_records |-> Str("rows")])),
      JsonFile(JObj([data_records |-> JObj([job_status |-> Str("failed")])])) }

ReporterFiles ==
    OtherFiles
    \cup {Snapshot(recs) : recs \in SeqsUpTo(JobRecords, MaxRows)}
    \cup {Snapshot(recs) : recs \in SeqsUpTo(ModuleRecords, MaxRows)}
    \cup {Snapshot(recs) : recs \in SeqsUpTo(ClusterRecords, MaxRows)}
    \cup {Snapshot(<<r>>) : r \in PartialRecords}

(***************************************************************************)
(* Specifications                                                          *)
(***************************************************************************)
InitReporterVars ==
    /\ rpc = "boot"
    /\ df_combined_telemetry = EmptyDataFrame
    /\ log = ""
    /\ now = 40
    /\ sort_ties \in {"kept", "reversed"}
    /\ out = NoCall
    /\ repeat = NoRepeat

\* the extractor is started on a warehouse and a file system; the reporter
\* is run after it
Init ==
    /\ epc = "connect"
    /\ conn = "none"
    /\ opened = 0
    /\ result \in SeqsUpTo(DbRows, MaxRows)
    /\ chunk_size \in 1..MaxChunk
    /\ cursor = 1
    /\ all_chunks = <<>>
    /\ df = EmptyDataFrame
    /\ fs \in [Paths -> {Absent, Garbage, OldSnapshot}]
    /\ fs0 = fs
    /\ elog = ""
    /\ InitReporterVars

Next == Extractor \/ Reporter

Spec == Init /\ [][Next]_vars

\* the reporter alone, started on any snapshot file
InitReporter ==
    /\ epc = "done"
    /\ conn = "none"
    /\ opened = 0
    /\ result = <<>>
    /\ chunk_size = 1
    /\ cursor = 1
    /\ all_chunks = <<>>
    /\ df = EmptyDataFrame
    /\ fs \in [Paths -> ReporterFiles]
    /\ fs0 = fs
    /\ elog = ""
    /\ InitReporterVars

SpecReporter == InitReporter /\ [][Reporter]_vars

(***************************************************************************)
(* Properties of the extractor (under Spec)                                *)
(***************************************************************************)
\* the snapshot document at the extractor's path, when the file holds one
Document == fs[output_filename].val.v

\* C1: an extractor run whose fetch yields no rows (the query returned none,
\* or connecting or querying failed) does not raise and does not open the
\* snapshot file for writing: the file system is as it was when the run
\* started, so an existing snapshot keeps its content and no file is created.
C1_EmptyFetchLeavesFile ==
    /\ epc # "crashed"
    /\ (epc = "done" /\ Len(df.rows) = 0) => (elog = Skipping /\ fs = fs0)
    /\ (epc # "done") => fs = fs0

\* a run that connected, fetched no rows in the end, and finished beside an
\* existing snapshot
C1_Witness ==
    /\ epc = "done"
    /\ Len(df.rows) = 0
    /\ opened = 1
    /\ all_chunks # <<>>
    /\ Len(result) > 0
    /\ fs0[output_filename] = OldSnapshot

\* C2: on every exit path of fetch_data_from_redshift a connection that was
\* opened is closed when the function has returned, at most one connection
\* is opened per call, and no connection is open while the snapshot is
\* serialized.
C2_ConnectionClosed ==
    /\ opened <= 1
    /\ (conn = "open") => (epc = "read")
    /\ (epc \in {"save", "done", "crashed"}) => (conn = IF opened = 0 THEN "none" ELSE "closed")

\* the query failed in the middle of pagination and the function has returned
C2_Witness ==
    /\ epc = "save"
    /\ opened = 1
    /\ conn = "closed"
    /\ all_chunks # <<>>
    /\ cursor <= Len(result)
    /\ Len(df.rows) = 0

\* C3: when a non-empty result has been delivered, in whatever pages, and the
\* snapshot has been written, data_records is the result's rows in fetch order
\* (as many as were fetched), and data_schema has one entry per column of the
\* table, the columns that are the keys of every record.
C3_SnapshotHoldsResult ==
    (epc = "done" /\ elog = Saved) =>
        /\ fs[output_filename].kind = "json"
        /\ Len(result) > 0
        /\ Len(Document["data_records"].v) = Len(result)
        /\ \A i \in 1..Len(result) :
               /\ DOMAIN Document["data_records"].v[i].v = QueryColumns
               /\ \A c \in QueryColumns :
                      Document["data_records"].v[i].v[c] = JsonCell(result[i][c])
        /\ DOMAIN Document["data_schema"].v = QueryColumns

\* a result of three rows, delivered in two pages or more, has been saved
C3_Witness ==
    /\ epc = "done"
    /\ elog = Saved
    /\ Len(result) = 3
    /\ Len(all_chunks) >= 2
    /\ result[1] # result[2]

\* the columns each report reads without which it cannot produce its report
RequiredColumns ==
    {"job_created_timestamp", "job_status"}
    \cup ModuleColumns
    \cup {"is_compliant", "job_created_date", "job_org_id", "job_cluster_id"}

\* C10: after an extractor run that saved a snapshot, the reporter loads that
\* snapshot, its table has every column the three reports require, and no
\* report answers with a missing-column message or an error.
C10_PipelineColumnsAgree ==
    (elog = Saved /\ rpc # "boot") =>
        /\ log = SuccessfullyLoaded
        /\ Len(df_combined_telemetry.rows) = Len(result)
        /\ RequiredColumns \subseteq df_combined_telemetry.columns
        /\ out.res.kind \notin {"missing", "raise"}

(***************************************************************************)
(* Properties of the reporter (under SpecReporter)                         *)
(***************************************************************************)
Table == df_combined_telemetry
File == fs[COMBINED_JSON_PATH]

\* the file holds a JSON object whose data_records is a list
HoldsRecordList(file) ==
    /\ file.kind = "json"
    /\ file.val.t = "obj"
    /\ "data_records" \in DOMAIN file.val.v
    /\ file.val.v["data_records"].t = "arr"

\* C4: whatever columns the loaded table has, no report function raises: each
\* returns a string.
C4_NoReportRaises == out.res.kind # "raise" /\ rpc # "crashed"

\* C5: the loader classifies every state of the snapshot file: absent gives
\* the 'run extractor first' message, text that is no JSON the 'corrupted'
\* message, a JSON value of any type without a data_records list the
\* 'unexpected structure' message, each with an empty table; a data_records
\* list gives the table of its rows in order.
C5_LoaderClassifies ==
    (rpc # "boot") =>
        /\ (File.kind = "absent") => (log = NotFound /\ IsEmpty(Table))
        /\ (File.kind = "garbage") => (log = InvalidJson /\ IsEmpty(Table))
        /\ (File.kind = "json" /\ ~HoldsRecordList(File)) =>
               (log = UnexpectedStructure /\ IsEmpty(Table))
        /\ HoldsRecordList(File) =>
               /\ log = SuccessfullyLoaded
               /\ Len(Table.rows) = Len(File.val.v["data_records"].v)
               /\ \A i \in 1..Len(Table.rows) :
                      \A c \in DOMAIN File.val.v["data_records"].v[i].v :
                          Table.rows[i][c] = File.val.v["data_records"].v[i].v[c]

\* the reference of the top-modules report: a row counts when its module name
\* is a text other than '' and 'nan'; its count is its number, or 0
RefValid(row) ==
    /\ row["module_name"].t = "str"
    /\ row["module_name"].v \notin {"", "nan"}
RefKey(row) == <<AsStr(row["collection_name"]), row["module_name"]>>
RefKeys == {RefKey(Table.rows[i]) : i \in {j \in 1..Len(Table.rows) : RefValid(Table.rows[j])}}
RefCount(c) == IF c.t = "num" THEN c.v ELSE 0
RefSum(k) ==
    Sum([i \in 1..Len(Table.rows) |->
            IF RefValid(Table.rows[i]) /\ RefKey(Table.rows[i]) = k
            THEN RefCount(Table.rows[i]["module_invocation_count"]) ELSE 0])

\* C6: on a table with the three module columns, get_top_modules_used(top_n)
\* returns the reference's result: the groups (collection_name, module_name)
\* of the rows whose module name is not null, '' or 'nan', each with the sum
\* of its counts, by descending sum, the first top_n of them; for rows
\* (A,x,5), (A,x,3), (B,y,10) and top_n = 2 that is (B,y,10), (A,x,8).
C6_TopModulesIsReference ==
    (out.fn = "modules" /\ ~IsEmpty(Table) /\ ModuleColumns \subseteq Table.columns) =>
        IF RefKeys = {} THEN out.res.kind = "nodata"
        ELSE LET rows == out.res.rows
                 KeyOf(r) == <<r.collection_name, r.module_name>>
             IN  /\ out.res.kind = "report"
                 /\ Len(rows) = Min(out.arg, Cardinality(RefKeys))
                 /\ \A i \in 1..Len(rows) :
                        /\ KeyOf(rows[i]) \in RefKeys
                        /\ rows[i].module_invocation_count = RefSum(KeyOf(rows[i]))
                 /\ \A i, j \in 1..Len(rows) :
                        /\ (i < j) => rows[i].module_invocation_count >= rows[j].module_invocation_count
                        /\ (i # j) => KeyOf(rows[i]) # KeyOf(rows[j])
                 /\ \A k \in RefKeys :
                        (\A i \in 1..Len(rows) : KeyOf(rows[i]) # k) =>
                            (\A i \in 1..Len(rows) : rows[i].module_invocation_count >= RefSum(k))

\* the table of the records given
TableOf(recs) == FromRecords(recs)

\* the clusters of the table and, per cluster, its rows
ClusterKeys == {ClusterKey(Table.rows[i]) : i \in 1..Len(Table.rows)}
RowsOf(k) == {i \in 1..Len(Table.rows) : ClusterKey(Table.rows[i]) = k}
Latest(k) ==
    {i \in RowsOf(k) :
        \A j \in RowsOf(k) :
            DateKey(Table.rows[i]["job_created_date"]) >= DateKey(Table.rows[j]["job_created_date"])}
Flag(i) == Lower(AsStr(Table.rows[i]["is_compliant"]))

\* C7: the compliance report counts one row per distinct (job_org_id,
\* job_cluster_id) pair, a row whose job_created_date is the greatest of its
\* pair (a missing date being the least): the total is the number of pairs,
\* the compliant and non-compliant counts are the numbers of kept rows whose
\* lower-cased flag is 'true' and 'false'.  The two rows of (1, 9) dated
\* 2024-01-01 (false) and 2024-06-01 (true) give 1, 1, 0 in either order.
C7_ComplianceCountsLatest ==
    (out.fn = "compliance" /\ out.res.kind = "report") =>
        /\ out.res.nums[1] = Cardinality(ClusterKeys)
        /\ \E keep \in [ClusterKeys -> 1..Len(Table.rows)] :
               /\ \A k \in ClusterKeys : keep[k] \in Latest(k)
               /\ out.res.nums[2] = Cardinality({k \in ClusterKeys : Flag(keep[k]) = Str("true")})
               /\ out.res.nums[3] = Cardinality({k \in ClusterKeys : Flag(keep[k]) = Str("false")})
        /\ LET old == ClusterRecord(Num(1), Num(9), DateStr(20240101), Bool(FALSE))
               new == ClusterRecord(Num(1), Num(9), DateStr(20240601), Bool(TRUE))
           IN  (Table \in {TableOf(<<old, new>>), TableOf(<<new, old>>)}) => out.res.nums = <<1, 1, 0>>

\* the older row comes last in the table, a third row of the same cluster is
\* older still, and the report has counted the one cluster as compliant
C7_Witness ==
    /\ out.fn = "compliance"
    /\ out.res.kind = "report"
    /\ Len(Table.rows) = 3
    /\ Table.rows[1]["job_created_date"] = DateStr(20240101)
    /\ Table.rows[2]["job_created_date"] = DateStr(20240601)
    /\ Table.rows[2]["is_compliant"] = Bool(TRUE)
    /\ Table.rows[3]["job_created_date"] = DateStr(20240101)
    /\ Cardinality(ClusterKeys) = 1
    /\ out.res.nums = <<1, 1, 0>>

\* the rows of the table in the window of the last jobs call
Parses(c) == c.t = "tsstr"
WindowRows ==
    {i \in 1..Len(Table.rows) :
        /\ Parses(Table.rows[i]["job_created_timestamp"])
        /\ out.at - out.arg <= Table.rows[i]["job_created_timestamp"].v
        /\ Table.rows[i]["job_created_timestamp"].v <= out.at}

\* C8: on a table with the job columns, get_jobs_run_summary(n_days) reports
\* as total the number of rows whose timestamp parses to t with
\* now - n_days <= t <= now, rows that do not parse being dropped; successful
\* and failed are those rows' counts by job_status; and it returns a 'no data'
\* string exactly when the table is empty or that number is 0.  Rows of today,
\* yesterday and 40 days ago with n_days = 30 give a total of 2.
C8_JobsCountsWindow ==
    (out.fn = "jobs" /\ out.res.kind # "raise") =>
        /\ (out.res.kind = "nodata") <=> (IsEmpty(Table) \/ WindowRows = {})
        /\ (out.res.kind # "nodata") =>
               /\ out.res.kind = "report"
               /\ out.res.nums[1] = Cardinality(WindowRows)
               /\ out.res.nums[2] =
                      Cardinality({i \in WindowRows : Table.rows[i]["job_status"] = Str("successful")})
               /\ out.res.nums[3] =
                      Cardinality({i \in WindowRows : Table.rows[i]["job_status"] = Str("failed")})
        /\ (/\ out.arg = 30
            /\ {"job_created_timestamp", "job_status"} \subseteq Table.columns
            /\ Len(Table.rows) = 3
            /\ {Table.rows[i]["job_created_timestamp"] : i \in 1..3}
                   = {TsStr(out.at), TsStr(out.at - 1), TsStr(out.at - 40)})
               => out.res.nums[1] = 2

\* rows of today, yesterday and 40 days ago, a row on the window's first day
\* in another table, summarised over 30 days
C8_Witness ==
    /\ out.fn = "jobs"
    /\ out.arg = 30
    /\ out.at = 40
    /\ out.res.kind = "report"
    /\ Len(Table.rows) = 3
    /\ {Table.rows[i]["job_created_timestamp"] : i \in 1..3} = {TsStr(40), TsStr(39), TsStr(0)}
    /\ out.res.nums[1] = 2

\* a row dated the first day of the window has been counted
C8_BoundaryWitness ==
    /\ out.fn = "jobs"
    /\ out.res.kind = "report"
    /\ \E i \in WindowRows : Table.rows[i]["job_created_timestamp"].v = out.at - out.arg

\* C9 as stated: the reports leave the loaded table as it was loaded, and a
\* report called twice in a row with the same parameters on the same table
\* returns the same output.
C9_ReportsArePure ==
    (rpc # "boot") =>
        /\ Table = LoadFile(File).table
        /\ repeat.call => repeat.output

\* C9 as the code has it: the reports leave the loaded table as it was
\* loaded; get_top_modules_used and get_cluster_compliance_summary called
\* twice in a row with the same parameters return the same output, and so does
\* get_jobs_run_summary when the clock reads the same at both calls.
C9_ReportsPureGivenClock ==
    (rpc # "boot") =>
        /\ Table = LoadFile(File).table
        /\ (repeat.call /\ (out.fn = "jobs" => repeat.clock)) => repeat.output

\* the modules report has been called twice in a row with the same top_n on a
\* table that has a row without a module name
C9_Witness ==
    /\ repeat.call
    /\ out.fn = "modules"
    /\ out.res.kind = "report"
    /\ \E i \in 1..Len(Table.rows) : Table.rows[i]["module_name"] = None

====
